---- MODULE Spec2Model ----
(***************************************************************************)
(* Relocate-Engine: the fixed-timestep physics update                      *)
(* (PhysicsSystem::update, src/src/PhysicsSystem.cpp) and the game cycle   *)
(* with its optional render thread (Game, Scene: src/unnamed/part_000).    *)
(*                                                                         *)
(* Two specifications share this module:                                   *)
(*   PhysSpec  frames of PhysicsSystem::update, phase by phase             *)
(*   Spec      Game::initialise / Game::start / Game::handleRenderThread   *)
(*                                                                         *)
(* The C++ float type is modelled bit-exactly: an IEEE-754 binary32 value  *)
(* is the record [s, m, e] standing for (-1)^s * m * 2^e with m = 0 or     *)
(* 2^23 <= m < 2^24, and every operation rounds to nearest, ties to even.  *)
(***************************************************************************)
EXTENDS Integers, Sequences, FiniteSets, TLC

(***************************************************************************)
(* binary32 arithmetic                                                     *)
(***************************************************************************)
RECURSIVE Pow2(_)
Pow2(n) == IF n = 0 THEN 1 ELSE 2 * Pow2(n - 1)

\* significand width of float
MantBits == 24
MantMin == Pow2(MantBits - 1)
MantMax == Pow2(MantBits)

FZero == [s |-> 0, m |-> 0, e |-> 0]

RECURSIVE ExcessBits(_)
ExcessBits(mag) == IF mag < MantMax THEN 0 ELSE 1 + ExcessBits(mag \div 2)

RECURSIVE LackBits(_)
LackBits(mag) == IF mag >= MantMin THEN 0 ELSE 1 + LackBits(mag * 2)

\* the float nearest to (-1)^s * mag * 2^ex (ties to even), 0 <= mag < 2^31
RoundPack(s, mag, ex) ==
  IF mag = 0 THEN FZero
  ELSE IF mag < MantMin
       THEN LET k == LackBits(mag) IN [s |-> s, m |-> mag * Pow2(k), e |-> ex - k]
       ELSE LET k    == ExcessBits(mag)
                q    == mag \div Pow2(k)
                r    == mag % Pow2(k)
                half == IF k = 0 THEN 0 ELSE Pow2(k - 1)
                up   == k > 0 /\ (r > half \/ (r = half /\ q % 2 = 1))
                q2   == IF up THEN q + 1 ELSE q
            IN IF q2 = MantMax THEN [s |-> s, m |-> MantMin, e |-> ex + k + 1]
                               ELSE [s |-> s, m |-> q2, e |-> ex + k]

\* int -> float conversion
FromInt(n) == IF n < 0 THEN RoundPack(1, -n, 0) ELSE RoundPack(0, n, 0)

FNeg(x) == IF x.m = 0 THEN x ELSE [x EXCEPT !.s = 1 - x.s]

\* |x| < |y|
MagLt(x, y) ==
  IF y.m = 0 THEN FALSE
  ELSE IF x.m = 0 THEN TRUE
  ELSE x.e < y.e \/ (x.e = y.e /\ x.m < y.m)

\* x < y
FLt(x, y) ==
  IF x.s = 0 /\ y.s = 0 THEN MagLt(x, y)
  ELSE IF x.s = 1 /\ y.s = 1 THEN MagLt(y, x)
  ELSE x.s = 1 /\ (x.m # 0 \/ y.m # 0)

FLe(x, y) == ~FLt(y, x)

\* guard, round and sticky bit of an addition
GuardBits == 3

\* mag shifted right by d bits, the bits shifted out or-ed into the lowest bit
ShiftJam(mag, d) ==
  IF d >= MantBits + GuardBits THEN 1
  ELSE LET p == Pow2(d)
       IN (mag \div p) + (IF mag % p # 0 /\ (mag \div p) % 2 = 0 THEN 1 ELSE 0)

\* x + y
FAdd(x, y) ==
  IF x.m = 0 THEN y
  ELSE IF y.m = 0 THEN x
  ELSE LET big   == IF MagLt(x, y) THEN y ELSE x
           small == IF MagLt(x, y) THEN x ELSE y
           g     == Pow2(GuardBits)
           B     == big.m * g
           S     == ShiftJam(small.m * g, big.e - small.e)
       IN IF big.s = small.s THEN RoundPack(big.s, B + S, big.e - GuardBits)
                             ELSE RoundPack(big.s, B - S, big.e - GuardBits)

\* x - y
FSub(x, y) == FAdd(x, FNeg(y))

\* the 48-bit product of two significands is built from 12-bit halves
LimbBits == 12

\* x * y
FMul(x, y) ==
  IF x.m = 0 \/ y.m = 0 THEN FZero
  ELSE LET L  == Pow2(LimbBits)
           xh == x.m \div L
           xl == x.m % L
           yh == y.m \div L
           yl == y.m % L
           A  == xh * yh
           B  == xh * yl + xl * yh
           C  == xl * yl
           lo == (B % L) * L + C
           hi == A + (B \div L) + (lo \div MantMax)
           l2 == lo % MantMax
           t  == Pow2(MantBits - 4)
           mg == (hi * 16 + (l2 \div t)) * 2 + (IF l2 % t # 0 THEN 1 ELSE 0)
       IN RoundPack((x.s + y.s) % 2, mg, x.e + y.e + MantBits - 5)

\* quotient bits developed before rounding
QuotBits == 26

RECURSIVE LongDiv(_, _, _, _)
LongDiv(q, r, d, n) ==
  IF n = 0 THEN 2 * q + (IF r # 0 THEN 1 ELSE 0)
  ELSE IF 2 * r >= d THEN LongDiv(2 * q + 1, 2 * r - d, d, n - 1)
                     ELSE LongDiv(2 * q, 2 * r, d, n - 1)

\* x / y, y # 0
FDiv(x, y) ==
  IF x.m = 0 THEN FZero
  ELSE RoundPack((x.s + y.s) % 2,
                 LongDiv(x.m \div y.m, x.m % y.m, y.m, QuotBits),
                 x.e - y.e - QuotBits - 1)

\* static_cast<int>(std::floor(x)), |x| < 2^31
FloorInt(x) ==
  IF x.m = 0 THEN 0
  ELSE LET ip == IF x.e >= 0 THEN x.m * Pow2(x.e)
                 ELSE IF -x.e >= MantBits THEN 0 ELSE x.m \div Pow2(-x.e)
           fr == x.e < 0 /\ (-x.e >= MantBits \/ x.m % Pow2(-x.e) # 0)
       IN IF x.s = 0 THEN ip ELSE IF fr THEN -(ip + 1) ELSE -ip

FOne == FromInt(1)

Min(a, b) == IF a < b THEN a ELSE b

(***************************************************************************)
(* State                                                                   *)
(***************************************************************************)
VARIABLES
  \* PhysicsSystem
  timeStepAccumilator_,   \* float, seconds not yet consumed by fixed steps
  fixedTimeStepRatio_,    \* float, timeStepAccumilator_ / fixedTimeStep_
  steps,                  \* update's local: whole steps extracted this frame
  stepsClamped,           \* update's local: min(steps, maxSteps_)
  stepIndex,              \* update's local: the loop counter i
  pcUpdate,               \* where PhysicsSystem::update stands
  dtMicros,               \* sf::Time dt of the running frame, in microseconds
  ent,                    \* Transform and RigidBody component of each entity
  body,                   \* the b2Body objects of world_
  forces,                 \* world_ holds applied forces not yet cleared
  \* history of the physics frames
  frameLog,               \* phases executed by the running (or last) frame
  frames,                 \* frames completed or running
  accBefore,              \* timeStepAccumilator_ when the frame began
  totalSteps,             \* fixed steps executed since construction
  totalMicros,            \* elapsed microseconds handed to update so far
  capHit,                 \* some frame extracted more than maxSteps_ steps
  passLog,                \* what the frame's last pass did, entity by entity
  gravity,                \* world_'s gravity, in physics units
  gravityBefore,          \* what getGravity() returned before the last call
  lastCall,               \* the last gravity call and its arguments
  gravityCalls,           \* gravity calls made so far
  \* Game
  status_,                \* Game::Status
  multiThread_,           \* rendering runs on a thread of its own
  debug_,                 \* debug mode
  window_,                \* the sf::RenderWindow pointer: "null", "live", "deleted"
  windowMutex_,           \* who holds it: "free", "main", "render"
  currentScene_,          \* the Scene pointer: "null", "live", "deleted"
  onQuitValid,            \* the scene's onQuit_ hook is a valid function
  joinable,               \* renderThread->joinable()
  pcMain,                 \* where the main thread stands
  pcRender,               \* where the render thread stands
  process,                \* start()'s local: this iteration may poll
  events,                 \* start()'s local: the events collected this iteration
  osEvents,               \* events waiting in the window's queue
  eventsSent,             \* events the window system has delivered so far
  crashed,                \* the process died of a use after free
  \* history of the game cycle
  iter,                   \* what the running main-loop iteration has done
  winAccess,              \* the last access to the window
  renderDebugDraw,        \* the render in progress draws the physics world
  uaf,                    \* a deleted window or scene has been used
  refused                 \* the last call that returned on its status check

physVars == <<timeStepAccumilator_, fixedTimeStepRatio_, steps, stepsClamped,
              stepIndex, pcUpdate, dtMicros, ent, body, forces, frameLog,
              frames, accBefore, totalSteps, totalMicros, capHit, passLog>>

gravVars == <<gravity, gravityBefore, lastCall, gravityCalls>>

gameState == <<status_, multiThread_, debug_, window_, windowMutex_, currentScene_,
               onQuitValid, joinable, pcMain, pcRender, process, events, osEvents,
               eventsSent, crashed, iter, winAccess, renderDebugDraw, uaf>>

gameVars == <<gameState, refused>>

vars == <<physVars, gameVars, gravVars>>

(***************************************************************************)
(* PhysicsSystem                                                           *)
(***************************************************************************)
\* PhysicsSystem::scale
scale == FromInt(100)

\* fixedTimeStep_ = 1/60 s and maxSteps_ = 5 (declared in PhysicsSystem.h)
fixedTimeStep_ == FDiv(FOne, FromInt(60))
maxSteps_ == 5

\* sf::Time::asSeconds(): microseconds / 1000000.f
asSeconds(us) == FDiv(FromInt(us), FromInt(1000000))

convertToSF(v) == FMul(v, scale)
convertToB2(v) == FDiv(v, scale)

\* frames a behaviour runs, and the frame times it draws from
MaxFrames == 3
ElapsedMicros == {0, 1000, 16667, 33333, 50000, 100000, 1000000}

EntityIds == {1, 2, 3}
BodyIds == {1, 2, 3}
NoBody == 0

\* the displacement one world_.Step gives a moving body (Box2D's integrator
\* is an external primitive; any fixed motion serves)
StepMove == FDiv(FOne, FromInt(4))

\* PhysicsSystem::PhysicsSystem, lines 43-46, and the scene's entities
PhysStart(sync) ==
  /\ timeStepAccumilator_ = FZero
  /\ fixedTimeStepRatio_ = FZero
  /\ steps = 0
  /\ stepsClamped = 0
  /\ stepIndex = 0
  /\ pcUpdate = "idle"
  /\ dtMicros = 0
  /\ ent = [e \in EntityIds |->
             [position          |-> IF e = 1 THEN FromInt(250) ELSE FromInt(100 * e),
              rotation          |-> FZero,
              body_             |-> IF e = 3 THEN NoBody ELSE e,
              previousPosition_ |-> FZero,
              previousAngle_    |-> FZero,
              isOutOfSync_      |-> (e = 1 /\ sync),
              disposeList_      |-> IF e = 3 THEN <<3>> ELSE <<>>]]
  /\ body = [b \in BodyIds |->
               [alive  |-> TRUE,
                static |-> (b = 2),
                pos    |-> FromInt(b),
                angle  |-> FZero,
                awake  |-> (b = 1)]]
  /\ forces = TRUE
  /\ frameLog = <<>>
  /\ frames = 0
  /\ accBefore = FZero
  /\ totalSteps = 0
  /\ totalMicros = 0
  /\ capHit = FALSE
  /\ passLog = <<>>

\* lines 62-72: accumulate the frame time and extract the whole steps
AccumulatedTime(acc, us) == FAdd(acc, asSeconds(us))
\* a slip in the step extraction: rounding the quotient up
WholeStepsRoundedUp(acc) == FloorInt(FDiv(acc, fixedTimeStep_)) + 1
WholeSteps(acc) == FloorInt(FDiv(acc, fixedTimeStep_))
Remainder(acc, n) == IF n > 0 THEN FSub(acc, FMul(FromInt(n), fixedTimeStep_)) ELSE acc
StepsClamped(n) == Min(n, maxSteps_)

\* a slip in the phase order: forces cleared inside the loop, before each step
AfterPhaseClearFirst(i, n) == IF i < n THEN "clear" ELSE "smooth"
\* the phase that follows, given the loop counter: the for loop's test
AfterPhase(i, n) == IF i < n THEN "reset" ELSE "clear"

\* update is not running: it has not been called or has just returned
\* ("idle"), or gameplay code has run since ("gameplay")
BetweenFrames == pcUpdate \in {"idle", "gameplay"}

UpdateBegin(us) ==
  /\ BetweenFrames
  /\ frames < MaxFrames
  /\ LET acc == AccumulatedTime(timeStepAccumilator_, us)
         n   == WholeSteps(acc)
         rem == Remainder(acc, n)
     IN /\ timeStepAccumilator_' = rem
        /\ steps' = n
        /\ fixedTimeStepRatio_' = FDiv(rem, fixedTimeStep_)
        /\ stepsClamped' = StepsClamped(n)
        /\ capHit' = (capHit \/ n > maxSteps_)
  /\ accBefore' = timeStepAccumilator_
  /\ dtMicros' = us
  /\ totalMicros' = totalMicros + us
  /\ frames' = frames + 1
  /\ frameLog' = <<>>
  /\ stepIndex' = 0
  /\ pcUpdate' = "sync"
  /\ passLog' = <<>>
  /\ UNCHANGED <<ent, body, forces, totalSteps>>
  /\ UNCHANGED <<gameVars, gravVars>>

\* a slip in the sync phase: the body pointer is not tested
NeedsSyncBodiless(r) == r.isOutOfSync_
\* a slip in the sync phase: the flag is not looked at
NeedsSyncUnflagged(r) == r.body_ # NoBody
\* lines 75-88, one entity
NeedsSync(r) == r.isOutOfSync_ /\ r.body_ # NoBody

SyncedEntity(r) ==
  IF NeedsSync(r)
  THEN [r EXCEPT !.previousPosition_ = convertToB2(r.position),
                 !.previousAngle_ = r.rotation,
                 !.isOutOfSync_ = FALSE]
  ELSE r

SyncedBody(b) ==
  IF \E e \in EntityIds : NeedsSync(ent[e]) /\ ent[e].body_ = b
  THEN LET e == CHOOSE x \in EntityIds : NeedsSync(ent[x]) /\ ent[x].body_ = b
       IN [body[b] EXCEPT !.pos = convertToB2(ent[e].position),
                          !.angle = ent[e].rotation,
                          !.awake = TRUE]
  ELSE body[b]

SyncOutOfSync ==
  /\ pcUpdate = "sync"
  /\ ent' = [e \in EntityIds |-> SyncedEntity(ent[e])]
  /\ body' = [b \in BodyIds |-> SyncedBody(b)]
  /\ frameLog' = Append(frameLog, "sync")
  /\ pcUpdate' = AfterPhase(0, stepsClamped)
  /\ UNCHANGED <<timeStepAccumilator_, fixedTimeStepRatio_, steps, stepsClamped,
                 stepIndex, dtMicros, forces, frames, accBefore, totalSteps,
                 totalMicros, capHit>>
  /\ UNCHANGED <<passLog, gameVars, gravVars>>

\* lines 153-164: resetSmoothStates
CapturesPose(r) == r.body_ # NoBody /\ ~body[r.body_].static

resetSmoothStates(r) ==
  IF CapturesPose(r)
  THEN [r EXCEPT !.previousPosition_ = body[r.body_].pos,
                 !.previousAngle_ = body[r.body_].angle]
  ELSE r

\* lines 93-96
ResetSmooth ==
  /\ pcUpdate = "reset"
  /\ ent' = [e \in EntityIds |-> resetSmoothStates(ent[e])]
  /\ frameLog' = Append(frameLog, "reset")
  /\ pcUpdate' = "step"
  /\ UNCHANGED <<timeStepAccumilator_, fixedTimeStepRatio_, steps, stepsClamped,
                 stepIndex, dtMicros, body, forces, frames, accBefore, totalSteps,
                 totalMicros, capHit>>
  /\ UNCHANGED <<passLog, gameVars, gravVars>>

\* lines 117-121: world_.Step(timeStep, ...)
SteppedBody(b) ==
  IF b.alive /\ ~b.static /\ b.awake THEN [b EXCEPT !.pos = FAdd(b.pos, StepMove)] ELSE b

\* line 99 and the loop's ++i
SingleStep ==
  /\ pcUpdate = "step"
  /\ body' = [b \in BodyIds |-> SteppedBody(body[b])]
  /\ totalSteps' = totalSteps + 1
  /\ stepIndex' = stepIndex + 1
  /\ frameLog' = Append(frameLog, "step")
  /\ pcUpdate' = AfterPhase(stepIndex + 1, stepsClamped)
  /\ UNCHANGED <<timeStepAccumilator_, fixedTimeStepRatio_, steps, stepsClamped,
                 dtMicros, ent, forces, frames, accBefore, totalMicros, capHit>>
  /\ UNCHANGED <<passLog, gameVars, gravVars>>

\* line 103
ClearForces ==
  /\ pcUpdate = "clear"
  /\ forces' = FALSE
  /\ frameLog' = Append(frameLog, "clear")
  /\ pcUpdate' = "smooth"
  /\ UNCHANGED <<timeStepAccumilator_, fixedTimeStepRatio_, steps, stepsClamped,
                 stepIndex, dtMicros, ent, body, frames, accBefore, totalSteps,
                 totalMicros, capHit>>
  /\ UNCHANGED <<passLog, gameVars, gravVars>>

\* a slip in smoothState: the two weights exchanged
smoothStateSwapped(r, bs) ==
  IF r.body_ # NoBody /\ ~bs[r.body_].static
  THEN [r EXCEPT !.position =
                   convertToSF(FAdd(FMul(fixedTimeStepRatio_, r.previousPosition_),
                                    FMul(FSub(FOne, fixedTimeStepRatio_),
                                         bs[r.body_].pos))),
                 !.rotation = bs[r.body_].angle]
  ELSE r

\* lines 123-150: smoothState, against the bodies bs
smoothState(r, bs) ==
  IF r.body_ # NoBody /\ ~bs[r.body_].static
  THEN [r EXCEPT !.position =
                   convertToSF(FAdd(FMul(fixedTimeStepRatio_, bs[r.body_].pos),
                                    FMul(FSub(FOne, fixedTimeStepRatio_),
                                         r.previousPosition_))),
                 !.rotation = bs[r.body_].angle]
  ELSE r

\* lines 110-113: world_.DestroyBody of every queued body
RECURSIVE DestroyAll(_, _)
DestroyAll(bs, list) ==
  IF list = <<>> THEN bs
  ELSE DestroyAll([bs EXCEPT ![Head(list)].alive = FALSE], Tail(list))

\* the record of one entity's turn: its interpolation, then the DestroyBody calls
RECURSIVE DestroyLog(_, _)
DestroyLog(bs, list) ==
  IF list = <<>> THEN <<>>
  ELSE <<[op |-> "destroy", id |-> Head(list), live |-> bs[Head(list)].alive]>>
       \o DestroyLog([bs EXCEPT ![Head(list)].alive = FALSE], Tail(list))

TurnLog(e, es, bs) ==
  <<[op |-> "smooth", id |-> e,
     live |-> (es[e].body_ = NoBody \/ bs[es[e].body_].alive)]>>
  \o DestroyLog(bs, es[e].disposeList_)

\* lines 106-114: the entities in turn, each smoothed and then its list disposed
RECURSIVE SmoothFrom(_, _, _, _)
SmoothFrom(e, es, bs, log) ==
  IF e \notin EntityIds THEN [ents |-> es, bodies |-> bs, log |-> log]
  ELSE SmoothFrom(e + 1,
                  [es EXCEPT ![e] = [smoothState(es[e], bs) EXCEPT !.disposeList_ = <<>>]],
                  DestroyAll(bs, es[e].disposeList_),
                  log \o TurnLog(e, es, bs))

SmoothAndDispose ==
  /\ pcUpdate = "smooth"
  /\ LET out == SmoothFrom(1, ent, body, <<>>)
     IN /\ ent' = out.ents
        /\ body' = out.bodies
        /\ passLog' = out.log
  /\ frameLog' = Append(frameLog, "smooth")
  /\ pcUpdate' = "idle"
  /\ UNCHANGED <<timeStepAccumilator_, fixedTimeStepRatio_, steps, stepsClamped,
                 stepIndex, dtMicros, forces, frames, accBefore, totalSteps,
                 totalMicros, capHit>>
  /\ UNCHANGED <<gameVars, gravVars>>

\* the entities whose gameplay code gives up its body between two frames
Disposers == {1}

\* gameplay between two frames: the entity queues its body for disposal and
\* detaches it
QueueDisposal(e) ==
  /\ BetweenFrames
  /\ frames < MaxFrames
  /\ ent[e].body_ # NoBody
  /\ ent' = [ent EXCEPT ![e].disposeList_ = Append(@, ent[e].body_),
                        ![e].body_ = NoBody]
  /\ pcUpdate' = "gameplay"
  /\ UNCHANGED <<timeStepAccumilator_, fixedTimeStepRatio_, steps, stepsClamped,
                 stepIndex, dtMicros, body, forces, frameLog, frames,
                 accBefore, totalSteps, totalMicros, capHit, passLog>>
  /\ UNCHANGED <<gameVars, gravVars>>

(***************************************************************************)
(* Game and Scene                                                          *)
(***************************************************************************)
\* Game::Status, in the order its comparisons rely on
Uninitialised == 0
Ready == 1
Running == 2
Quitting == 3
ShuttingDown == 4

\* events the window system delivers in one behaviour
MaxEvents == 3
EventTypes == {"Closed", "Other"}

NoAccess == [by |-> "none", op |-> "none", held |-> FALSE, during |-> FALSE]
NewIter == [polled |-> FALSE, dispatched |-> 0, quits |-> 0, updated |-> FALSE,
            hook |-> "none"]

\* lines 10-18: the static members
GameStart ==
  /\ status_ = Uninitialised
  /\ multiThread_ = FALSE
  /\ debug_ = FALSE
  /\ window_ = "null"
  /\ windowMutex_ = "free"
  /\ currentScene_ = "null"
  /\ onQuitValid = FALSE
  /\ joinable = FALSE
  /\ pcMain = "caller"
  /\ pcRender = "none"
  /\ process = FALSE
  /\ events = <<>>
  /\ osEvents = <<>>
  /\ eventsSent = 0
  /\ crashed = FALSE
  /\ iter = NewIter
  /\ winAccess = NoAccess
  /\ renderDebugDraw = FALSE
  /\ uaf = FALSE
  /\ refused = "none"

\* the outcomes of using a deleted object: the process dies, or it goes on
UseAfterFree(dead) == IF dead THEN BOOLEAN ELSE {FALSE}

\* the window system queues an event for the open window
OsEvent(type) ==
  /\ ~crashed
  /\ window_ = "live"
  /\ eventsSent < MaxEvents
  /\ osEvents' = Append(osEvents, type)
  /\ eventsSent' = eventsSent + 1
  /\ UNCHANGED <<status_, multiThread_, debug_, window_, windowMutex_, currentScene_,
                 onQuitValid, joinable, pcMain, pcRender, process, events, crashed,
                 iter, winAccess, renderDebugDraw, uaf>>
  /\ UNCHANGED <<refused, physVars, gravVars>>

\* lines 459-460: the calls come from the program's main function before the
\* loop, or from the scene's update script while the loop runs
CallerPcs == {"caller", "updating"}

\* line 25
InitialiseAllowed == status_ = Uninitialised

\* lines 20-57: Game::initialise
CallInitialise(multiThread, luaOk) ==
  /\ ~crashed
  /\ pcMain \in CallerPcs
  /\ IF ~InitialiseAllowed
     THEN /\ refused' = "initialise"
          /\ UNCHANGED <<multiThread_, window_, status_>>
     ELSE /\ multiThread_' = multiThread
          /\ window_' = IF luaOk THEN "live" ELSE window_
          /\ status_' = IF luaOk THEN Ready ELSE status_
          /\ refused' = "none"
  /\ UNCHANGED <<debug_, windowMutex_, currentScene_, onQuitValid, joinable, pcMain,
                 pcRender, process, events, osEvents, eventsSent, crashed, iter,
                 winAccess, renderDebugDraw, uaf>>
  /\ UNCHANGED <<physVars, gravVars>>

\* lines 263-280: Game::switchScene, to a scene with or without a quit hook
CallSwitchScene(hook) ==
  /\ ~crashed
  /\ pcMain = "caller"
  /\ currentScene_ = "null"
  /\ currentScene_' = "live"
  /\ onQuitValid' = hook
  /\ UNCHANGED <<status_, multiThread_, debug_, window_, windowMutex_, joinable,
                 pcMain, pcRender, process, events, osEvents, eventsSent, crashed,
                 iter, winAccess, renderDebugDraw, uaf>>
  /\ UNCHANGED <<refused, physVars, gravVars>>

\* lines 319-324: Game::setDebugMode
CallSetDebugMode(enable) ==
  /\ ~crashed
  /\ pcMain = "caller"
  /\ debug_' = enable
  /\ UNCHANGED <<status_, multiThread_, window_, windowMutex_, currentScene_,
                 onQuitValid, joinable, pcMain, pcRender, process, events, osEvents,
                 eventsSent, crashed, iter, winAccess, renderDebugDraw, uaf>>
  /\ UNCHANGED <<refused, physVars, gravVars>>

\* lines 84-91: new std::thread(...) followed by detach()
JoinableAfterSpawn == FALSE

\* a slip in Game::start: no status check
StartAlways == TRUE
\* line 64
StartAllowed == status_ = Ready

\* lines 59-91: Game::start up to the main loop
CallStart ==
  /\ ~crashed
  /\ pcMain \in CallerPcs
  /\ IF ~StartAllowed
     THEN /\ refused' = "start"
          /\ UNCHANGED <<status_, pcMain, pcRender, joinable>>
     ELSE /\ status_' = Running
          /\ pcMain' = "loop"
          /\ pcRender' = IF multiThread_ THEN "entry" ELSE pcRender
          /\ joinable' = IF multiThread_ THEN JoinableAfterSpawn ELSE joinable
          /\ refused' = "none"
  /\ UNCHANGED <<multiThread_, debug_, window_, windowMutex_, currentScene_,
                 onQuitValid, process, events, osEvents, eventsSent, crashed, iter,
                 winAccess, renderDebugDraw, uaf>>
  /\ UNCHANGED <<physVars, gravVars>>

\* line 94: the main loop's test
LoopTest ==
  /\ ~crashed
  /\ pcMain = "loop"
  /\ pcMain' = IF status_ < ShuttingDown THEN "trylock" ELSE "afterloop"
  /\ iter' = NewIter
  /\ events' = <<>>
  /\ UNCHANGED <<status_, multiThread_, debug_, window_, windowMutex_, currentScene_,
                 onQuitValid, joinable, pcRender, process, osEvents, eventsSent,
                 crashed, winAccess, renderDebugDraw, uaf>>
  /\ UNCHANGED <<refused, physVars, gravVars>>

\* a probe that waits for the mutex instead of giving up
lock_blocking(owner) == IF owner = "free" THEN {TRUE} ELSE {}
\* std::mutex::try_lock: never waits; fails when held, and may fail when free
try_lock(owner) == IF owner = "free" THEN {TRUE, FALSE} ELSE {FALSE}

\* lines 108-116
TryLock ==
  /\ ~crashed
  /\ pcMain = "trylock"
  /\ \E got \in (IF multiThread_ THEN try_lock(windowMutex_) ELSE {TRUE}) :
       /\ process' = got
       /\ windowMutex_' = IF multiThread_ /\ got THEN "main" ELSE windowMutex_
       /\ pcMain' = IF got THEN "poll" ELSE "update"
  /\ UNCHANGED <<status_, multiThread_, debug_, window_, currentScene_, onQuitValid,
                 joinable, pcRender, events, osEvents, eventsSent, crashed, iter,
                 winAccess, renderDebugDraw, uaf>>
  /\ UNCHANGED <<refused, physVars, gravVars>>

\* lines 118-121: window_->pollEvent until the queue is empty
PollEvents ==
  /\ ~crashed
  /\ pcMain = "poll"
  /\ \E dies \in UseAfterFree(window_ = "deleted") :
       /\ crashed' = dies
       /\ uaf' = (uaf \/ window_ = "deleted")
  /\ events' = osEvents
  /\ osEvents' = <<>>
  /\ iter' = [iter EXCEPT !.polled = TRUE]
  /\ winAccess' = [by |-> "main", op |-> "pollEvent",
                   held |-> (windowMutex_ = "main"),
                   during |-> (pcRender = "rendering")]
  /\ pcMain' = "unlock"
  /\ UNCHANGED <<status_, multiThread_, debug_, window_, windowMutex_, currentScene_,
                 onQuitValid, joinable, pcRender, process, eventsSent,
                 renderDebugDraw>>
  /\ UNCHANGED <<refused, physVars, gravVars>>

\* a slip after polling: the mutex is kept
unlock_forgotten(owner) == owner
\* lines 123-126: the mutex after polling
unlock(owner) == IF multiThread_ THEN "free" ELSE owner

\* lines 123-126
Unlock ==
  /\ ~crashed
  /\ pcMain = "unlock"
  /\ windowMutex_' = unlock(windowMutex_)
  /\ pcMain' = "dispatch"
  /\ UNCHANGED <<status_, multiThread_, debug_, window_, currentScene_, onQuitValid,
                 joinable, pcRender, process, events, osEvents, eventsSent, crashed,
                 iter, winAccess, renderDebugDraw, uaf>>
  /\ UNCHANGED <<refused, physVars, gravVars>>

\* lines 128-139, one event; a Closed event enters Game::quit (lines 228-232)
Dispatch ==
  /\ ~crashed
  /\ pcMain = "dispatch"
  /\ IF events = <<>>
     THEN /\ pcMain' = "update"
          /\ UNCHANGED <<status_, events, iter>>
     ELSE /\ events' = Tail(events)
          /\ IF Head(events) = "Closed"
             THEN /\ status_' = Quitting
                  /\ pcMain' = "quit"
                  /\ iter' = [iter EXCEPT !.dispatched = @ + 1, !.quits = @ + 1]
             ELSE /\ pcMain' = "dispatch"
                  /\ iter' = [iter EXCEPT !.dispatched = @ + 1]
                  /\ UNCHANGED status_
  /\ UNCHANGED <<multiThread_, debug_, window_, windowMutex_, currentScene_,
                 onQuitValid, joinable, pcRender, process, osEvents, eventsSent,
                 crashed, winAccess, renderDebugDraw, uaf>>
  /\ UNCHANGED <<refused, physVars, gravVars>>

\* a slip in Scene::quit: terminating whatever the hook did
SceneQuitAlways(hookOk) == TRUE
\* a slip in Scene::quit: a failing hook counted as a veto
SceneQuitIgnoresError(hookOk) == ~onQuitValid
\* lines 508-525: Scene::quit terminates unless a valid hook runs without error
SceneQuitTerminates(hookOk) == ~onQuitValid \/ ~hookOk

\* lines 234-240: Game::quit terminates at once when there is no scene
QuitTerminates(hookOk) ==
  IF currentScene_ # "null" THEN SceneQuitTerminates(hookOk) ELSE TRUE

\* lines 511-519: what the scene's quit hook did: "none" when it was not
\* called, "ok" when it ran, "error" when it failed
HookResult(hookOk) ==
  IF currentScene_ # "null" /\ onQuitValid
  THEN IF hookOk THEN "ok" ELSE "error"
  ELSE "none"

\* lines 234-253: the rest of Game::quit, and Game::terminate
QuitDecide ==
  /\ ~crashed
  /\ pcMain = "quit"
  /\ \E hookOk \in BOOLEAN :
       /\ iter' = [iter EXCEPT !.hook = HookResult(hookOk)]
       /\ IF QuitTerminates(hookOk)
          THEN /\ status_' = ShuttingDown
               /\ window_' = "deleted"
               /\ winAccess' = [by |-> "main", op |-> "close",
                                held |-> (windowMutex_ = "main"),
                                during |-> (pcRender = "rendering")]
               /\ \E dies \in UseAfterFree(window_ = "deleted") :
                    /\ crashed' = dies
                    /\ uaf' = (uaf \/ window_ = "deleted")
          ELSE UNCHANGED <<status_, window_, winAccess, crashed, uaf>>
  /\ pcMain' = "dispatch"
  /\ UNCHANGED <<multiThread_, debug_, windowMutex_, currentScene_, onQuitValid,
                 joinable, pcRender, process, events, osEvents, eventsSent,
                 renderDebugDraw>>
  /\ UNCHANGED <<refused, physVars, gravVars>>

\* lines 142-143 and 167-175: Game::update enters Scene::update
UpdateEnter ==
  /\ ~crashed
  /\ pcMain = "update"
  /\ pcMain' = "updating"
  /\ UNCHANGED <<status_, multiThread_, debug_, window_, windowMutex_, currentScene_,
                 onQuitValid, joinable, pcRender, process, events, osEvents,
                 eventsSent, crashed, iter, winAccess, renderDebugDraw, uaf>>
  /\ UNCHANGED <<refused, physVars, gravVars>>

\* the main thread is inside Scene::update, stepping the physics world
MainInPhysics == pcMain = "updating" /\ currentScene_ = "live"

UpdateLeave ==
  /\ ~crashed
  /\ pcMain = "updating"
  /\ iter' = [iter EXCEPT !.updated = TRUE]
  /\ pcMain' = "post"
  /\ UNCHANGED <<status_, multiThread_, debug_, window_, windowMutex_, currentScene_,
                 onQuitValid, joinable, pcRender, process, events, osEvents,
                 eventsSent, crashed, winAccess, renderDebugDraw, uaf>>
  /\ UNCHANGED <<refused, physVars, gravVars>>

\* lines 145-153: render on this thread, or yield to the render thread
AfterUpdate ==
  /\ ~crashed
  /\ pcMain = "post"
  /\ IF ~multiThread_ /\ status_ < ShuttingDown
     THEN /\ winAccess' = [by |-> "main", op |-> "render", held |-> FALSE,
                           during |-> FALSE]
          /\ \E dies \in UseAfterFree(window_ = "deleted") :
               /\ crashed' = dies
               /\ uaf' = (uaf \/ window_ = "deleted")
     ELSE UNCHANGED <<winAccess, crashed, uaf>>
  /\ pcMain' = "loop"
  /\ UNCHANGED <<status_, multiThread_, debug_, window_, windowMutex_, currentScene_,
                 onQuitValid, joinable, pcRender, process, events, osEvents,
                 eventsSent, iter, renderDebugDraw>>
  /\ UNCHANGED <<refused, physVars, gravVars>>

\* lines 156-160: join the render thread when it is joinable
AfterLoop ==
  /\ ~crashed
  /\ pcMain = "afterloop"
  /\ (multiThread_ /\ joinable) => pcRender = "done"
  /\ pcMain' = "shutdown"
  /\ UNCHANGED <<status_, multiThread_, debug_, window_, windowMutex_, currentScene_,
                 onQuitValid, joinable, pcRender, process, events, osEvents,
                 eventsSent, crashed, iter, winAccess, renderDebugDraw, uaf>>
  /\ UNCHANGED <<refused, physVars, gravVars>>

\* line 258: Game::shutdown resets the status
ShutdownStatus ==
  /\ ~crashed
  /\ pcMain = "shutdown"
  /\ status_' = Uninitialised
  /\ pcMain' = "release"
  /\ UNCHANGED <<multiThread_, debug_, window_, windowMutex_, currentScene_,
                 onQuitValid, joinable, pcRender, process, events, osEvents,
                 eventsSent, crashed, iter, winAccess, renderDebugDraw, uaf>>
  /\ UNCHANGED <<refused, physVars, gravVars>>

\* lines 259-260: delete currentScene_, and start() returns
ShutdownRelease ==
  /\ ~crashed
  /\ pcMain = "release"
  /\ currentScene_' = IF currentScene_ = "live" THEN "deleted" ELSE currentScene_
  /\ pcMain' = "returned"
  /\ UNCHANGED <<status_, multiThread_, debug_, window_, windowMutex_, onQuitValid,
                 joinable, pcRender, process, events, osEvents, eventsSent, crashed,
                 iter, winAccess, renderDebugDraw, uaf>>
  /\ UNCHANGED <<refused, physVars, gravVars>>

\* lines 181-185: the easy out, and the render loop's test
RenderTest ==
  /\ ~crashed
  /\ pcRender \in {"entry", "test"}
  /\ pcRender' = IF pcRender = "entry" /\ status_ < Running THEN "done"
                 ELSE IF status_ < ShuttingDown THEN "lock" ELSE "done"
  /\ UNCHANGED <<status_, multiThread_, debug_, window_, windowMutex_, currentScene_,
                 onQuitValid, joinable, pcMain, process, events, osEvents, eventsSent,
                 crashed, iter, winAccess, renderDebugDraw, uaf>>
  /\ UNCHANGED <<refused, physVars, gravVars>>

\* line 186: windowMutex_.lock() waits until the mutex is free
RenderLock ==
  /\ ~crashed
  /\ pcRender = "lock"
  /\ windowMutex_ = "free"
  /\ windowMutex_' = "render"
  /\ pcRender' = "render"
  /\ UNCHANGED <<status_, multiThread_, debug_, window_, currentScene_, onQuitValid,
                 joinable, pcMain, process, events, osEvents, eventsSent, crashed,
                 iter, winAccess, renderDebugDraw, uaf>>
  /\ UNCHANGED <<refused, physVars, gravVars>>

\* lines 471-489: Scene::render emits DebugRenderPhysicsEvent in debug mode,
\* which PhysicsSystem::receive (lines 203-212) answers with DrawDebugData
DrawsPhysics == debug_ /\ currentScene_ # "null"

\* lines 193-204: Game::render up to the scene's drawing
RenderBegin ==
  /\ ~crashed
  /\ pcRender = "render"
  /\ LET dead == window_ = "deleted" \/ currentScene_ = "deleted"
     IN \E dies \in UseAfterFree(dead) :
          /\ crashed' = dies
          /\ uaf' = (uaf \/ dead)
  /\ renderDebugDraw' = DrawsPhysics
  /\ winAccess' = [by |-> "render", op |-> "render",
                   held |-> (windowMutex_ = "render"), during |-> FALSE]
  /\ pcRender' = "rendering"
  /\ UNCHANGED <<status_, multiThread_, debug_, window_, windowMutex_, currentScene_,
                 onQuitValid, joinable, pcMain, process, events, osEvents, eventsSent,
                 iter>>
  /\ UNCHANGED <<refused, physVars, gravVars>>

\* lines 206-207: window_->display()
RenderEnd ==
  /\ ~crashed
  /\ pcRender = "rendering"
  /\ \E dies \in UseAfterFree(window_ = "deleted") :
       /\ crashed' = dies
       /\ uaf' = (uaf \/ window_ = "deleted")
  /\ renderDebugDraw' = FALSE
  /\ pcRender' = "unlock"
  /\ UNCHANGED <<status_, multiThread_, debug_, window_, windowMutex_, currentScene_,
                 onQuitValid, joinable, pcMain, process, events, osEvents, eventsSent,
                 iter, winAccess>>
  /\ UNCHANGED <<refused, physVars, gravVars>>

\* line 188
RenderUnlock ==
  /\ ~crashed
  /\ pcRender = "unlock"
  /\ windowMutex_' = "free"
  /\ pcRender' = "sleep"
  /\ UNCHANGED <<status_, multiThread_, debug_, window_, currentScene_, onQuitValid,
                 joinable, pcMain, process, events, osEvents, eventsSent, crashed,
                 iter, winAccess, renderDebugDraw, uaf>>
  /\ UNCHANGED <<refused, physVars, gravVars>>

\* line 189: sleep_for(3 ms)
RenderSleep ==
  /\ ~crashed
  /\ pcRender = "sleep"
  /\ pcRender' = "test"
  /\ UNCHANGED <<status_, multiThread_, debug_, window_, windowMutex_, currentScene_,
                 onQuitValid, joinable, pcMain, process, events, osEvents, eventsSent,
                 crashed, iter, winAccess, renderDebugDraw, uaf>>
  /\ UNCHANGED <<refused, physVars, gravVars>>

\* the steps of the main thread inside Game::start's loop
MainLoopStep ==
  \/ LoopTest
  \/ TryLock
  \/ PollEvents
  \/ Unlock
  \/ Dispatch
  \/ QuitDecide
  \/ UpdateEnter
  \/ UpdateLeave
  \/ AfterUpdate

MainNext ==
  \/ \E mt \in BOOLEAN, ok \in BOOLEAN : CallInitialise(mt, ok)
  \/ \E hook \in BOOLEAN : CallSwitchScene(hook)
  \/ \E en \in BOOLEAN : CallSetDebugMode(en)
  \/ CallStart
  \/ MainLoopStep
  \/ AfterLoop
  \/ ShutdownStatus
  \/ ShutdownRelease

RenderNext ==
  \/ RenderTest
  \/ RenderLock
  \/ RenderBegin
  \/ RenderEnd
  \/ RenderUnlock
  \/ RenderSleep

(***************************************************************************)
(* PhysicsSystem: gravity                                                  *)
(***************************************************************************)
NoCall == [op |-> "none", a |-> FZero, b |-> FZero]

\* lines 44-45: world_ is built with defaultGravity_ = (0, 10), unconverted
GravStart ==
  /\ gravity = [x |-> FZero, y |-> FromInt(10)]
  /\ gravityBefore = [x |-> FZero, y |-> FZero]
  /\ lastCall = NoCall
  /\ gravityCalls = 0

\* gravity calls a behaviour makes, and the arguments it draws from
MaxGravityCalls == 2
Tenths == {-100, -98, -5, 0, 7, 10, 20, 75, 98, 150}
GravityInputs == {FDiv(FromInt(n), FromInt(10)) : n \in Tenths}

\* lines 172-176
getGravity == [x |-> convertToSF(gravity.x), y |-> convertToSF(gravity.y)]

\* lines 185-189: what setGravity hands to world_.SetGravity
Stored(gx, gy) == [x |-> convertToB2(gx), y |-> convertToB2(gy)]

\* lines 185-189
setGravity(gx, gy) ==
  /\ gravityCalls < MaxGravityCalls
  /\ gravity' = Stored(gx, gy)
  /\ gravityBefore' = getGravity
  /\ lastCall' = [op |-> "setGravity", a |-> gx, b |-> gy]
  /\ gravityCalls' = gravityCalls + 1
  /\ UNCHANGED <<physVars, gameVars>>

\* lines 178-183
setGravityMult(m) ==
  /\ gravityCalls < MaxGravityCalls
  /\ LET g == getGravity
     IN gravity' = Stored(FMul(g.x, m), FMul(g.y, m))
  /\ gravityBefore' = getGravity
  /\ lastCall' = [op |-> "setGravityMult", a |-> m, b |-> FZero]
  /\ gravityCalls' = gravityCalls + 1
  /\ UNCHANGED <<physVars, gameVars>>

(***************************************************************************)
(* Specifications                                                          *)
(***************************************************************************)
Init == GameStart /\ PhysStart(FALSE) /\ GravStart

Next ==
  \/ MainNext
  \/ RenderNext
  \/ \E type \in EventTypes : OsEvent(type)

Spec == Init /\ [][Next]_vars

PhysInit == GameStart /\ GravStart /\ \E sync \in BOOLEAN : PhysStart(sync)

PhysNext ==
  \/ \E us \in ElapsedMicros : UpdateBegin(us)
  \/ SyncOutOfSync
  \/ ResetSmooth
  \/ SingleStep
  \/ ClearForces
  \/ SmoothAndDispose
  \/ \E e \in Disposers : QueueDisposal(e)

PhysSpec == PhysInit /\ [][PhysNext]_vars

GravNext ==
  \/ \E gx \in GravityInputs, gy \in GravityInputs : setGravity(gx, gy)
  \/ \E m \in GravityInputs : setGravityMult(m)

GravSpec == Init /\ [][GravNext]_vars

(***************************************************************************)
(* Claims about PhysicsSystem::update, checked under PhysSpec              *)
(***************************************************************************)
FrameDone == pcUpdate = "idle" /\ frames > 0

\* the fixed steps the running (or last) frame has executed
StepsRun == Cardinality({k \in 1..Len(frameLog) : frameLog[k] = "step"})

\* C1: after the step extraction of every frame the accumulator lies in
\* [0, fixedTimeStep_) and the interpolation fraction in [0, 1).
C1_AccumulatorInRange ==
  frames > 0 =>
    /\ FLe(FZero, timeStepAccumilator_)
    /\ FLt(timeStepAccumilator_, fixedTimeStep_)
    /\ FLe(FZero, fixedTimeStepRatio_)
    /\ FLt(fixedTimeStepRatio_, FOne)

\* C2: a frame executes min(floor((accBefore + elapsed) / fixedStep), maxSteps)
\* fixed steps, never more than maxSteps_, and none when
\* accBefore + elapsed < fixedStep.
C2_StepsExecuted ==
  FrameDone =>
    LET sum == FAdd(accBefore, asSeconds(dtMicros))
    IN /\ StepsRun = Min(FloorInt(FDiv(sum, fixedTimeStep_)), maxSteps_)
       /\ StepsRun <= maxSteps_
       /\ (FLt(sum, fixedTimeStep_) => StepsRun = 0)

\* floor and remainder of p * m / d for p < 2^24, m < 2^24 and d <= 2^23,
\* six bits of p at a time so that no product overflows
RECURSIVE MulDivDigits(_, _, _, _, _)
MulDivDigits(p, i, m, d, qr) ==
  IF i < 0 THEN qr
  ELSE LET r == 64 * qr[2] + ((p \div Pow2(6 * i)) % 64) * m
       IN MulDivDigits(p, i - 1, m, d, <<64 * qr[1] + r \div d, r % d>>)
MulDiv(p, m, d) == MulDivDigits(p, 3, m, d, <<0, 0>>)

\* the microseconds n fixed steps last, rounded up: n * fixedTimeStep_ * 10^6,
\* where 10^6 = 2^6 * 15625
StepMicros(n) ==
  LET qr == MulDiv(n * 15625, fixedTimeStep_.m, Pow2(-fixedTimeStep_.e - 6))
  IN qr[1] + (IF qr[2] > 0 THEN 1 ELSE 0)

\* floor(T / h) for T = totalMicros and h the value fixedTimeStep_ holds
IdealSteps ==
  LET a == (totalMicros * 60) \div 1000000
  IN CHOOSE k \in (IF a > 0 THEN a - 1 ELSE 0)..a :
       StepMicros(k) <= totalMicros /\ StepMicros(k + 1) > totalMicros

\* C3: over any sequence of frames the steps executed total floor(T / h) when
\* the cap was never hit, and strictly less when it was.
C3_TotalSteps ==
  FrameDone => IF capHit THEN totalSteps < IdealSteps ELSE totalSteps = IdealSteps

\* 1/30 s as an sf::Time: 33333 microseconds
ScenarioA == FrameDone /\ frames = 1 /\ dtMicros = 33333

\* C4: Scenario A: from an empty accumulator a frame of 1/30 s executes
\* exactly one fixed step and leaves about 1/60 s (within a microsecond).
C4_ScenarioA ==
  ScenarioA =>
    /\ StepsRun = 1
    /\ totalSteps = 1
    /\ FLt(timeStepAccumilator_, fixedTimeStep_)
    /\ FLt(FSub(fixedTimeStep_, timeStepAccumilator_), asSeconds(1))

C4_Witness == ScenarioA /\ steps = 1

\* the phases of a frame that runs k fixed steps
RECURSIVE StepPhases(_)
StepPhases(k) == IF k <= 0 THEN <<>> ELSE <<"reset", "step">> \o StepPhases(k - 1)
FramePhases(k) == <<"sync">> \o StepPhases(k) \o <<"clear", "smooth">>

IsPrefix(s, t) == Len(s) <= Len(t) /\ SubSeq(t, 1, Len(s)) = s

\* C5: a frame runs sync once, then (capture poses, step) stepsClamped times,
\* then clears the forces once, then interpolates and disposes; each step
\* finds the pose of every non-static attached body captured.
C5_PhaseOrder ==
  /\ ~BetweenFrames => IsPrefix(frameLog, FramePhases(stepsClamped))
                          /\ Len(frameLog) < Len(FramePhases(stepsClamped))
  /\ FrameDone => /\ frameLog = FramePhases(stepsClamped)
                  /\ ~forces
                  /\ \A e \in EntityIds : ent[e].disposeList_ = <<>>
  /\ pcUpdate = "step" =>
       \A e \in EntityIds :
         CapturesPose(ent[e]) => ent[e].previousPosition_ = body[ent[e].body_].pos

C5_Witness ==
  /\ pcUpdate = "step"
  /\ stepIndex = 1
  /\ stepsClamped >= 2
  /\ ent[1].previousPosition_ = body[1].pos

(***************************************************************************)
(* Claims about Game, checked under Spec                                   *)
(***************************************************************************)
\* C6: during a run the status only moves forward along Uninitialised, Ready,
\* Running, Quitting, ShuttingDown, whatever events arrive, several window-closed
\* events in one frame included; the one step back is shutdown's final reset.
C6_StatusMonotonic ==
  [][status_' >= status_ \/ (pcMain = "shutdown" /\ status_' = Uninitialised)]_vars

\* the main thread has left the loop and entered Game::shutdown's releases
Releasing == pcMain \in {"shutdown", "release", "returned"}

\* C7: shutdown is ordered: the surface is closed once the status is
\* ShuttingDown; in multithreaded mode the render task has finished before
\* anything is released; the status returns to Uninitialised only after the
\* scene is released.
C7_ShutdownOrder ==
  ~crashed =>
    /\ status_ = ShuttingDown => window_ = "deleted"
    /\ (multiThread_ /\ Releasing) => pcRender = "done"
    /\ (Releasing /\ status_ = Uninitialised) => currentScene_ # "live"

\* C8: in multithreaded mode every access to the window is made by a thread
\* that holds windowMutex_, so none overlaps the render task's drawing.
C8_SurfaceExclusive ==
  (multiThread_ /\ winAccess.by # "none") => winAccess.held /\ ~winAccess.during

\* C9: in multithreaded mode the render task never draws the physics world
\* while the main thread is inside the scene's update, debug mode included.
C9_RenderAvoidsPhysics ==
  multiThread_ => ~(renderDebugDraw /\ MainInPhysics)

MainLoopPcs == {"loop", "trylock", "poll", "unlock", "dispatch", "quit", "update",
                "updating", "post"}

\* C10: in multithreaded mode no step of a main-loop iteration waits for the
\* render task; an iteration whose probe failed polls and dispatches nothing
\* and still updates; one whose probe succeeded polls, dispatches every polled
\* event, and then updates.
C10_NeverWaits ==
  (multiThread_ /\ ~crashed) =>
    /\ pcMain \in MainLoopPcs => ENABLED MainLoopStep
    /\ pcMain \in {"update", "updating", "post"} =>
         IF process
         THEN iter.polled /\ events = <<>>
         ELSE ~iter.polled /\ iter.dispatched = 0 /\ windowMutex_ # "main"
    /\ pcMain = "post" => iter.updated

\* the probe failed with events pending, and the frame's update has run
C10_Witness ==
  /\ multiThread_
  /\ pcMain = "post"
  /\ ~process
  /\ iter.updated
  /\ osEvents # <<>>
  /\ pcRender = "rendering"

\* the running step is a call of Game::quit whose scene hook ran and vetoed
VetoedQuit == pcMain = "quit" /\ pcMain' = "dispatch" /\ iter'.hook = "ok"

\* the running step is a call of Game::quit that nothing vetoes
UnvetoedQuit == pcMain = "quit" /\ pcMain' = "dispatch" /\ iter'.hook # "ok"

\* C11: a quit whose scene hook succeeds leaves the status Quitting, closes
\* nothing and goes on with the main loop; the status leaves Quitting only for
\* ShuttingDown, and only in a quit that was not vetoed.
C11_VetoStaysQuitting ==
  [][/\ VetoedQuit => /\ status_' = Quitting
                      /\ window_' = window_
                      /\ crashed' = crashed
     /\ (status_ = Quitting /\ status_' # Quitting) =>
          UnvetoedQuit /\ status_' = ShuttingDown]_vars

\* two quits of one frame were both vetoed: the window is open, the loop runs
C11_Witness ==
  /\ iter.quits = 2
  /\ iter.hook = "ok"
  /\ pcMain = "dispatch"
  /\ status_ = Quitting
  /\ window_ = "live"

\* C12: a quit with no scene, with a scene without a quit hook, or with a
\* failing quit hook reaches ShuttingDown with the window closed in that call.
C12_QuitProceeds ==
  [][UnvetoedQuit => status_' = ShuttingDown /\ window_' = "deleted"]_vars

\* the quit hook failed and the engine terminated all the same
C12_Witness ==
  /\ iter.hook = "error"
  /\ pcMain = "dispatch"
  /\ status_ = ShuttingDown
  /\ window_ = "deleted"
  /\ ~uaf

\* what a start() that passes its check does: the status becomes Running, a
\* render task appears, the main thread enters the loop
StartActs ==
  \/ status_ # Running /\ status_' = Running
  \/ pcRender = "none" /\ pcRender' # "none"
  \/ pcMain = "caller" /\ pcMain' # "caller"

\* what an initialise() that passes its check does
InitialiseActs ==
  \/ status_ # Ready /\ status_' = Ready
  \/ multiThread_' # multiThread_
  \/ window_ # "live" /\ window_' = "live"

\* the running step is a call that returned on its status check
RefusedCall == refused' # "none" /\ refused' # refused

\* C13: start() acts only in status Ready and initialise() only in status
\* Uninitialised; a call refused on its status changes nothing at all.
C13_RefusedCallsChangeNothing ==
  [][/\ StartActs => status_ = Ready
     /\ InitialiseActs => status_ = Uninitialised
     /\ RefusedCall => UNCHANGED <<gameState, physVars>>]_vars

\* start() was called from the update script of a quitting game and refused
C13_Witness ==
  /\ refused = "start"
  /\ status_ = Quitting
  /\ pcMain = "updating"
  /\ window_ = "live"

(***************************************************************************)
(* Claims about the frame's effects, checked under PhysSpec                *)
(***************************************************************************)
\* the bodies waiting on some entity's disposeList_
Queued == {b \in BodyIds : \E e \in EntityIds :
                              \E k \in 1..Len(ent[e].disposeList_) :
                                ent[e].disposeList_[k] = b}

\* no fixed step advances a queued body
QueuedNotStepped == pcUpdate = "step" => \A b \in Queued : body'[b] = body[b]

\* no interpolation reads a queued body
QueuedNotSmoothed == pcUpdate = "smooth" => \A e \in EntityIds : ent[e].body_ \notin Queued

\* in the last pass every DestroyBody comes after every interpolation
DestroyedAfterPass(log) ==
  \A i, j \in 1..Len(log) : (log[i].op = "destroy" /\ log[j].op = "smooth") => j < i

\* every DestroyBody is given a body that is still in the world
DestroyedOnce(log) == \A i \in 1..Len(log) : log[i].op = "destroy" => log[i].live

\* C14: a body queued for disposal is not advanced by a fixed step nor read by
\* an interpolation of the frame; the queued bodies are destroyed only after
\* the whole interpolation pass, each exactly once, and the lists end empty.
C14_DisposalSafety ==
  [][/\ QueuedNotStepped
     /\ QueuedNotSmoothed
     /\ DestroyedAfterPass(passLog')
     /\ DestroyedOnce(passLog')
     /\ pcUpdate = "smooth" => \A e \in EntityIds : ent'[e].disposeList_ = <<>>]_vars

\* the running step is the synchronization phase of a frame
SyncStep == pcUpdate = "sync" /\ pcUpdate' # "sync"

\* the entity is flagged out of sync and has a body attached
Flagged(e) == ent[e].isOutOfSync_ /\ ent[e].body_ # NoBody

\* C15: the synchronization phase changes nothing when no entity is flagged;
\* otherwise it changes only the flagged entities with a body: the body's pose
\* becomes the transform in physics units (and the body is woken), the
\* previous pose becomes that pose, the flag is cleared.
C15_SyncEffect ==
  [][SyncStep =>
       /\ (\A e \in EntityIds : ~ent[e].isOutOfSync_) => ent' = ent /\ body' = body
       /\ \A e \in EntityIds :
            IF Flagged(e)
            THEN /\ ent'[e] = [ent[e] EXCEPT
                                 !.previousPosition_ = convertToB2(ent[e].position),
                                 !.previousAngle_ = ent[e].rotation,
                                 !.isOutOfSync_ = FALSE]
                 /\ body'[ent[e].body_] = [body[ent[e].body_] EXCEPT
                                             !.pos = convertToB2(ent[e].position),
                                             !.angle = ent[e].rotation,
                                             !.awake = TRUE]
            ELSE ent'[e] = ent[e]
       /\ \A b \in BodyIds :
            (\A e \in EntityIds : ~(Flagged(e) /\ ent[e].body_ = b)) => body'[b] = body[b]
    ]_vars

\* entity 1 was flagged and has been synchronized; the others are as they were
C15_Witness ==
  /\ frameLog = <<"sync">>
  /\ ent[1].body_ = 1
  /\ ~ent[1].isOutOfSync_
  /\ body[1].pos = convertToB2(ent[1].position)
  /\ ent[1].previousPosition_ = body[1].pos
  /\ body[2].pos = FromInt(2)

\* the fields of an entity that update may write
Pose(r) == <<r.position, r.rotation, r.previousPosition_, r.previousAngle_,
             r.isOutOfSync_, r.body_>>

\* C16: no phase of update writes the transform, the previous pose or the
\* flag of an entity that has no body attached, whatever the frame time and
\* the steps run.
C16_BodilessUntouched ==
  [][\A e \in EntityIds : ent[e].body_ = NoBody => Pose(ent'[e]) = Pose(ent[e])]_vars

\* a frame with fixed steps has run over entity 1, flagged and without a body
C16_Witness ==
  /\ FrameDone
  /\ StepsRun >= 2
  /\ ent[1].body_ = NoBody
  /\ ent[1].isOutOfSync_
  /\ ent[1].position = FromInt(250)
  /\ ent[1].previousPosition_ = FZero

\* the running step is the frame's last pass
SmoothStep == pcUpdate = "smooth" /\ pcUpdate' # "smooth"

\* scale * (fraction * current + (1 - fraction) * previous), in float
Interpolated(cur, prev) ==
  convertToSF(FAdd(FMul(fixedTimeStepRatio_, cur),
                   FMul(FSub(FOne, fixedTimeStepRatio_), prev)))

\* x lies between a and b, in either order
Between(x, a, b) == (FLe(a, x) /\ FLe(x, b)) \/ (FLe(b, x) /\ FLe(x, a))

\* the entity has a body attached that is not static
Tweened(e) == ent[e].body_ # NoBody /\ ~body[ent[e].body_].static

FEq(x, y) == ~FLt(x, y) /\ ~FLt(y, x)

\* C18: after setGravity(gx, gy), getGravity() returns (gx, gy); after
\* setGravityMult(m) it returns what it returned before, times m in each
\* component.
C18_GravityRoundTrip ==
  /\ lastCall.op = "setGravity" =>
       FEq(getGravity.x, lastCall.a) /\ FEq(getGravity.y, lastCall.b)
  /\ lastCall.op = "setGravityMult" =>
       /\ FEq(getGravity.x, FMul(gravityBefore.x, lastCall.a))
       /\ FEq(getGravity.y, FMul(gravityBefore.y, lastCall.a))

(***************************************************************************)
(* Claims about the window, checked under Spec                             *)
(***************************************************************************)
\* C19: in multithreaded mode the simulation thread holds the mutex only
\* while it polls: it is released before any event is dispatched and before
\* the update runs, and no iteration and no exit of the loop keeps it.
C19_HeldOnlyWhilePolling ==
  (multiThread_ /\ windowMutex_ = "main") =>
    /\ pcMain \in {"poll", "unlock"}
    /\ process
    /\ iter.dispatched = 0 /\ iter.quits = 0 /\ ~iter.updated

C19_Witness ==
  /\ multiThread_
  /\ process /\ iter.polled
  /\ iter.dispatched > 0
  /\ pcMain = "updating"
  /\ windowMutex_ = "render"

\* C20: once terminate has closed and deleted the window, neither the render
\* task nor the main loop touches it again, and it is closed and deleted at
\* most once.
C20_NoUseAfterDelete == ~uaf

\* the render task passes its loop test and begins another iteration
RenderIterationStarts == pcRender \in {"entry", "test"} /\ pcRender' = "lock"
\* Game::shutdown has set the status back to Uninitialised
ShutdownHasRun == pcMain \in {"release", "returned"}

\* C21: in multithreaded mode the render task ends once termination has
\* proceeded: it starts no render iteration after the main thread has run
\* shutdown and reset the status, and none is running when start() returns.
C21_RenderTaskEnds ==
  [][multiThread_ =>
       /\ RenderIterationStarts => ~ShutdownHasRun
       /\ pcMain' = "returned" => pcRender' = "done"]_vars

====
